---- MODULE Spec2Model ----
(***************************************************************************)
(* Model of scripts/copy_public_trace.py: TraceTransformer, the object     *)
(* that re-assigns identifiers to the run records of one trace, remaps the *)
(* parent references, rebuilds the dotted_order keys and merges the        *)
(* provenance metadata.                                                    *)
(*                                                                         *)
(* Encoding.  A string is a sequence of character codes (ASCII), compared  *)
(* as Python compares str.  An identifier is a natural number standing for *)
(* a UUID; 0 stands for None.  UuidStr renders it with its hyphen and      *)
(* RunIdHex removes the hyphen again.  A timestamp is a natural number     *)
(* (an instant, UTC); 0 stands for an absent start_time.                   *)
(* FormattedTimestamp renders it fixed-width.  A dict is a function whose  *)
(* DOMAIN is its key set.                                                  *)
(***************************************************************************)
EXTENDS Integers, Sequences, FiniteSets, TLC

\* ---- bounds of the model ----
MaxRuns == 3
MaxTime == 2

VARIABLES
    preserve_timestamps,    \* self.preserve_timestamps
    id_mapping,             \* self.id_mapping: old id -> new id
    dotted_order_mapping,   \* self.dotted_order_mapping: old id -> new dotted_order
    new_trace_id,           \* self.new_trace_id (0 = None)
    input,                  \* the records as the caller passed them (snapshot)
    runs,                   \* the caller's record objects (the dicts themselves)
    sorted_runs,            \* transform_runs' local: references (positions in runs)
    transformed_runs,       \* the list transform_runs returns
    issued,                 \* the values uuid4 has returned so far
    calls,                  \* number of transform_runs calls made on the object
    create_run_calls,       \* upload_runs: the create_run calls made, in order
    pc                      \* "ready" | "fetched" | "done" | "error" |
                            \* "uploading" | "uploaded" | "upload_failed"

vars == <<preserve_timestamps, id_mapping, dotted_order_mapping, new_trace_id,
          input, runs, sorted_runs, transformed_runs, issued, calls,
          create_run_calls, pc>>

\* ---- characters and strings ----
HYPHEN == 45
DOT == 46
ZEE == 90

Digit(d) == 48 + d

Hex(d) == IF d < 10 THEN 48 + d ELSE 87 + d

\* Python's str < str: the first differing character decides, a proper
\* prefix is smaller.
RECURSIVE StrLess(_, _)
StrLess(a, b) ==
    IF b = <<>> THEN FALSE
    ELSE IF a = <<>> THEN TRUE
    ELSE IF Head(a) # Head(b) THEN Head(a) < Head(b)
    ELSE StrLess(Tail(a), Tail(b))

\* str(uuid): two groups of hex digits with the grouping hyphen.
UuidStr(id) == <<Hex(id \div 16), HYPHEN, Hex(id % 16)>>

\* new_id.replace("-", "")
RunIdHex(id) == SelectSeq(UuidStr(id), LAMBDA c : c # HYPHEN)

\* strftime("%Y%m%dT%H%M%S%f") + "Z": fixed width, zero padded, no separators.
FormattedTimestamp(t) == <<Digit(t \div 10), Digit(t % 10), ZEE>>

\* ---- dicts ----
Get(m, k, default) == IF k \in DOMAIN m THEN m[k] ELSE default

Put(m, k, v) == [x \in (DOMAIN m) \cup {k} |-> IF x = k THEN v ELSE m[x]]

EmptyDict == [x \in {} |-> 0]

\* ---- values of the free-form maps ----
True == <<"bool", 1>>

StrVal(id) == <<"str", id>>

IntVal(n) == <<"int", n>>

\* "metadata" is kept apart from the other keys of extra: kind says whether
\* the key is absent, holds None, or holds a dict with the given items.
AbsentKey == [kind |-> "absent", items |-> EmptyDict]

NoneValue == [kind |-> "none", items |-> EmptyDict]

Dict(items) == [kind |-> "dict", items |-> items]

Extra(kind, items, metadata) == [kind |-> kind, items |-> items, metadata |-> metadata]

NoExtra == Extra("absent", EmptyDict, AbsentKey)

\* ---- the run records a caller passes ----

\* Position of the record a parent reference resolves to (0: none).
Resolve(n, idf, id) ==
    IF \E q \in 1..n : idf[q] = id
    THEN CHOOSE q \in 1..n : idf[q] = id /\ \A q2 \in 1..n : idf[q2] = id => q <= q2
    ELSE 0

\* dotted_order as the service recorded it: the parent's dotted_order, ".",
\* then {timestamp}Z{run_id_hex} of the run itself.
RECURSIVE ServiceDottedOrder(_, _, _, _, _, _)
ServiceDottedOrder(n, idf, par, st, p, depth) ==
    LET part == FormattedTimestamp(st[p]) \o RunIdHex(idf[p])
        q == Resolve(n, idf, par[p])
    IN  IF par[p] = 0 \/ q = 0 \/ depth = 0
        THEN part
        ELSE ServiceDottedOrder(n, idf, par, st, q, depth - 1) \o <<DOT>> \o part

\* One fetched trace: n records with ids idf, parent references par (0 =
\* null), start times st (0 = absent), with or without the dotted_order
\* field, and extra maps ex.
MkRuns(n, idf, par, st, dotted, ex) ==
    [p \in 1..n |->
        [id |-> idf[p],
         parent_run_id |-> par[p],
         start_time |-> st[p],
         end_time |-> st[p],
         has_dotted_order |-> dotted,
         dotted_order |-> IF dotted THEN ServiceDottedOrder(n, idf, par, st, p, n)
                          ELSE <<>>,
         extra |-> ex[p]]]

\* ---- TraceTransformer.transform_runs ----

\* r.get("dotted_order", "")
SortKey(run) == IF run.has_dotted_order THEN run.dotted_order ELSE <<>>

\* sorted(runs, key=...): ascending and stable.  The result holds the same
\* record objects, here their positions in runs.
SortedRuns(rs) ==
    LET n == Len(rs)
        Before(q, p) == \/ StrLess(SortKey(rs[q]), SortKey(rs[p]))
                        \/ (SortKey(rs[q]) = SortKey(rs[p]) /\ q < p)
        Rank(p) == 1 + Cardinality({q \in 1..n : Before(q, p)})
    IN  [k \in 1..n |-> CHOOSE p \in 1..n : Rank(p) = k]

\* The first run (root) determines the new trace_id.
TraceIdAfterMutant(run, trace_id, new_id) == new_id

TraceIdAfter(run, trace_id, new_id) ==
    IF run.parent_run_id = 0 THEN new_id ELSE trace_id

\* First pass: one uuid4 per record of sorted_runs, in order; uuids[k] is the
\* value the k-th call of uuid4 returned.
RECURSIVE FirstPass(_, _, _, _, _, _)
FirstPass(rs, order, uuids, k, idm, trace_id) ==
    IF k > Len(order)
    THEN [id_mapping |-> idm, new_trace_id |-> trace_id]
    ELSE LET run == rs[order[k]]
             old_id == run.id
             new_id == uuids[k]
         IN  FirstPass(rs, order, uuids, k + 1,
                       Put(idm, old_id, new_id),
                       TraceIdAfter(run, trace_id, new_id))

\* ---- TraceTransformer._transform_single_run ----

\* new_id = self.id_mapping[old_id]
NewIdMutant(idm, old_id) == old_id

NewId(idm, old_id) == idm[old_id]

\* Determine new parent_run_id: None without a parent, else the mapped id
\* (None when the mapping has no entry).
NewParentIdMutant(run, idm) ==
    IF run.parent_run_id # 0 THEN Get(idm, run.id, 0) ELSE 0

NewParentId(run, idm) ==
    IF run.parent_run_id # 0 THEN Get(idm, run.parent_run_id, 0) ELSE 0

\* start_time / end_time of the transformed record.  utcnow().isoformat()
\* is the instant now; None is 0.
TransformedStartTime(run, preserve, now) ==
    IF preserve THEN run.start_time ELSE now

TransformedEndTime(run, preserve) ==
    IF preserve THEN run.end_time ELSE 0

\* "Add metadata about the source".  extra is run.get("extra", {}); a None
\* is replaced by {}, a missing "metadata" by {}; then the two keys are set.
\* aliased: the dict written to is the caller's own run["extra"].
\* error: extra["metadata"] is None, the item assignment raises TypeError.
SourceMetadataMutant(run, old_id) ==
    [extra |-> Extra("dict",
                     IF run.extra.kind = "dict" THEN run.extra.items ELSE EmptyDict,
                     Dict(Put(Put(EmptyDict, "copied_from_shared_trace", True),
                              "original_run_id", StrVal(old_id)))),
     aliased |-> run.extra.kind = "dict",
     error |-> run.extra.kind = "dict" /\ run.extra.metadata.kind = "none"]

SourceMetadata(run, old_id) ==
    LET got == IF run.extra.kind = "dict"
               THEN run.extra
               ELSE Extra("dict", EmptyDict, AbsentKey)
        withMeta == IF got.metadata.kind = "absent"
                    THEN Extra("dict", got.items, Dict(EmptyDict))
                    ELSE got
        fails == withMeta.metadata.kind = "none"
        marked == Put(Put(withMeta.metadata.items, "copied_from_shared_trace", True),
                      "original_run_id", StrVal(old_id))
    IN  [extra |-> IF fails THEN withMeta
                   ELSE Extra("dict", withMeta.items, Dict(marked)),
         aliased |-> run.extra.kind = "dict",
         error |-> fails]

\* start_time_dt: the record's own start time, parsed; utcnow() when the
\* record has none.
StartTimeDt(run, now) ==
    IF run.start_time # 0 THEN run.start_time ELSE now

\* current_part = f"{formatted_timestamp}{run_id_hex}"
CurrentPartMutant(run, new_id, now) ==
    RunIdHex(new_id) \o FormattedTimestamp(StartTimeDt(run, now))

CurrentPart(run, new_id, now) ==
    FormattedTimestamp(StartTimeDt(run, now)) \o RunIdHex(new_id)

\* Child runs prepend the parent's new dotted order; the fallback and the
\* root use the current part alone.
DottedOrderMutant(run, new_parent_id, dom, current_part) == current_part

DottedOrder(run, new_parent_id, dom, current_part) ==
    IF new_parent_id # 0
    THEN LET parent_dotted_order == Get(dom, run.parent_run_id, <<>>)
         IN  IF parent_dotted_order # <<>>
             THEN parent_dotted_order \o <<DOT>> \o current_part
             ELSE current_part
    ELSE current_part

\* The whole method on one record: the transformed dict, the updated
\* dotted_order_mapping, and the record as the call leaves it.
TransformSingleRunMutant(run, idm, dom, trace_id, preserve, now) ==
    LET old_id == run.id
        new_id == NewId(idm, old_id)
        new_parent_id == NewParentId(run, idm)
        meta == SourceMetadata(run, old_id)
        shown == TransformedStartTime(run, preserve, now)
        dotted == DottedOrder(run, new_parent_id, dom,
                              FormattedTimestamp(shown) \o RunIdHex(new_id))
    IN  [transformed |->
            [id |-> new_id,
             trace_id |-> trace_id,
             parent_run_id |-> new_parent_id,
             start_time |-> shown,
             end_time |-> TransformedEndTime(run, preserve),
             extra |-> meta.extra,
             dotted_order |-> dotted],
         run |-> IF meta.aliased THEN [run EXCEPT !.extra = meta.extra] ELSE run,
         dotted_order_mapping |-> IF meta.error THEN dom ELSE Put(dom, old_id, dotted),
         error |-> meta.error]

TransformSingleRun(run, idm, dom, trace_id, preserve, now) ==
    LET old_id == run.id
        new_id == NewId(idm, old_id)
        new_parent_id == NewParentId(run, idm)
        meta == SourceMetadata(run, old_id)
        dotted == DottedOrder(run, new_parent_id, dom, CurrentPart(run, new_id, now))
    IN  [transformed |->
            [id |-> new_id,
             trace_id |-> trace_id,
             parent_run_id |-> new_parent_id,
             start_time |-> TransformedStartTime(run, preserve, now),
             end_time |-> TransformedEndTime(run, preserve),
             extra |-> meta.extra,
             dotted_order |-> dotted],
         run |-> IF meta.aliased THEN [run EXCEPT !.extra = meta.extra] ELSE run,
         dotted_order_mapping |-> IF meta.error THEN dom ELSE Put(dom, old_id, dotted),
         error |-> meta.error]

\* Second pass of transform_runs: the records of sorted_runs in order; an
\* exception of _transform_single_run ends the call, nothing is returned.
RECURSIVE SecondPass(_, _, _, _, _, _, _, _)
SecondPass(rs, order, k, idm, dom, trace_id, preserve, now) ==
    IF k > Len(order)
    THEN [runs |-> rs, dotted_order_mapping |-> dom,
          transformed_runs |-> <<>>, error |-> FALSE]
    ELSE LET one == TransformSingleRun(rs[order[k]], idm, dom, trace_id, preserve, now)
             rs1 == [rs EXCEPT ![order[k]] = one.run]
         IN  IF one.error
             THEN [runs |-> rs1, dotted_order_mapping |-> one.dotted_order_mapping,
                   transformed_runs |-> <<>>, error |-> TRUE]
             ELSE LET rest == SecondPass(rs1, order, k + 1, idm,
                                         one.dotted_order_mapping, trace_id,
                                         preserve, now)
                  IN  [rest EXCEPT !.transformed_runs =
                          IF rest.error THEN <<>> ELSE <<one.transformed>> \o @]

\* ---- the environment: uuid4, the clock, the traces a caller fetches ----

\* uuid4 returns values that are fresh: never returned before and equal to
\* no identifier already in use (the identifiers of fetched records have a
\* first hex digit of 0, these have 1).
UuidPool == {16 + i : i \in 1..MaxRuns}

\* The results of n successive uuid4 calls.
Uuid4Results(n) ==
    {u \in [1..n -> UuidPool \ issued] : \A i, j \in 1..n : i # j => u[i] # u[j]}

\* datetime.utcnow(): later than every recorded start time.
Now == MaxTime + 1

Identity(n) == [p \in 1..n |-> p]

\* Identifier assignments of a fetched trace: distinct ids, or the last
\* record repeating the id of the first.
IdAssignments(n) ==
    {Identity(n)} \cup {[p \in 1..n |-> IF p = n THEN 1 ELSE p] : x \in {0}}

\* Parent references of a tree listed parents first: the first record is
\* the root, every other record refers to an earlier one.
TreeShapes(n) ==
    {par \in [1..n -> 0..n] :
        par[1] = 0 /\ \A p \in 2..n : par[p] >= 1 /\ par[p] < p}

\* Well-formed traces: a tree, dotted_order present, any start times
\* (0 = absent).
WellFormedTraces ==
    UNION {
        {MkRuns(n, Identity(n), par, st, TRUE, [p \in 1..n |-> NoExtra]) :
            par \in TreeShapes(n),
            st \in [1..n -> 0..MaxTime]}
        : n \in 1..MaxRuns}

\* Traces of any shape: any parent references (0 = null, n + 1 = an id no
\* record carries), in any list order, with distinct or repeated ids, with
\* or without dotted_order; all records started at the same instant.
AnyShapeTraces ==
    UNION {
        {MkRuns(n, idf, par, [p \in 1..n |-> 1], dotted, [p \in 1..n |-> NoExtra]) :
            idf \in IdAssignments(n),
            par \in [1..n -> 0..(n + 1)],
            dotted \in BOOLEAN}
        : n \in 1..MaxRuns}

\* The traces of the structural analysis.
Traces == WellFormedTraces \cup AnyShapeTraces

\* The extra maps a fetched record may carry: no "extra" key, None, a dict
\* without "metadata", with "metadata": None, with a metadata dict, and the
\* metadata of a record that is itself a copy.
ExtraValues ==
    LET other == Put(EmptyDict, "runtime", IntVal(7))
        user == Put(EmptyDict, "user", IntVal(5))
        copy == Put(Put(user, "copied_from_shared_trace", True),
                    "original_run_id", StrVal(9))
    IN  {NoExtra,
         Extra("none", EmptyDict, AbsentKey),
         Extra("dict", other, AbsentKey),
         Extra("dict", other, NoneValue),
         Extra("dict", EmptyDict, Dict(user)),
         Extra("dict", other, Dict(copy))}

\* The traces of the provenance analysis: a chain root, child, grandchild
\* with any extra maps.
ExtraTraces ==
    UNION {
        {MkRuns(n, Identity(n), [p \in 1..n |-> p - 1], [p \in 1..n |-> 1], TRUE, ex) :
            ex \in [1..n -> ExtraValues]}
        : n \in 1..MaxRuns}

\* Two different traces handed to one transformer, one after the other: a
\* single root with id 1, then records with other ids whose parent
\* references are null, an id of the second trace or the id of the first.
FirstTraces ==
    {MkRuns(1, Identity(1), [p \in 1..1 |-> 0], [p \in 1..1 |-> t], TRUE,
            [p \in 1..1 |-> NoExtra]) : t \in 1..MaxTime}

SecondTraces ==
    UNION {
        {MkRuns(n, [p \in 1..n |-> 1 + p], par, st, dotted, [p \in 1..n |-> NoExtra]) :
            par \in [1..n -> 0..(n + 1)],
            st \in [1..n -> 1..MaxTime],
            dotted \in BOOLEAN}
        : n \in 1..(MaxRuns - 1)}

\* ---- state machine ----

\* TraceTransformer.__init__
Init ==
    /\ preserve_timestamps \in BOOLEAN
    /\ id_mapping = EmptyDict
    /\ dotted_order_mapping = EmptyDict
    /\ new_trace_id = 0
    /\ input = <<>>
    /\ runs = <<>>
    /\ sorted_runs = <<>>
    /\ transformed_runs = <<>>
    /\ issued = {}
    /\ calls = 0
    /\ create_run_calls = <<>>
    /\ pc = "ready"

\* One call transform_runs(rs) on the object, whatever its state: sort,
\* first pass, second pass, return (or the exception of the second pass).
Call(rs) ==
    \E uuids \in Uuid4Results(Len(rs)) :
    \E order \in {SortedRuns(rs)} :
    \E first \in {FirstPass(rs, order, uuids, 1, id_mapping, new_trace_id)} :
    \E second \in {SecondPass(rs, order, 1, first.id_mapping,
                              dotted_order_mapping, first.new_trace_id,
                              preserve_timestamps, Now)} :
        /\ id_mapping' = first.id_mapping
        /\ new_trace_id' = first.new_trace_id
        /\ dotted_order_mapping' = second.dotted_order_mapping
        /\ input' = rs
        /\ runs' = second.runs
        /\ sorted_runs' = order
        /\ transformed_runs' = second.transformed_runs
        /\ issued' = issued \cup {uuids[k] : k \in 1..Len(rs)}
        /\ calls' = calls + 1
        /\ pc' = IF second.error THEN "error" ELSE "done"
        /\ UNCHANGED <<preserve_timestamps, create_run_calls>>

\* get_all_runs: the caller obtains the records of one of the given traces.
Fetch(traces) ==
    /\ pc \in {"ready", "done"}
    /\ \E rs \in traces : runs' = rs
    /\ pc' = "fetched"
    /\ UNCHANGED <<preserve_timestamps, id_mapping, dotted_order_mapping,
                   new_trace_id, input, sorted_runs, transformed_runs, issued,
                   calls, create_run_calls>>

\* transformer.transform_runs(all_runs)
TransformRuns ==
    /\ pc = "fetched"
    /\ Call(runs)

\* main(): a new transformer, one trace fetched, one call of transform_runs.
FetchTrace ==
    /\ calls = 0
    /\ Fetch(Traces)

Next == FetchTrace \/ TransformRuns

Spec == Init /\ [][Next]_vars

\* The same with the records of a trace that carry free-form extra maps.
FetchExtraTrace ==
    /\ calls = 0
    /\ Fetch(ExtraTraces)

NextExtra == FetchExtraTrace \/ TransformRuns

SpecExtra == Init /\ [][NextExtra]_vars

\* A transformer object used for two traces in a row.
FetchFirstTrace ==
    /\ calls = 0
    /\ Fetch(FirstTraces)

FetchSecondTrace ==
    /\ calls = 1
    /\ Fetch(SecondTraces)

NextReuse == FetchFirstTrace \/ FetchSecondTrace \/ TransformRuns

SpecReuse == Init /\ [][NextReuse]_vars

\* ---- vocabulary of the properties ----

Positions == 1..Len(input)

Ids(rs) == {rs[p].id : p \in 1..Len(rs)}

UniqueIds(rs) == \A p, q \in 1..Len(rs) : p # q => rs[p].id # rs[q].id

Roots(rs) == {p \in 1..Len(rs) : rs[p].parent_run_id = 0}

ParentsResolve(rs) ==
    \A p \in 1..Len(rs) : rs[p].parent_run_id # 0 => rs[p].parent_run_id \in Ids(rs)

\* Unique ids, exactly one root, every parent reference resolves inside.
ValidInput(rs) == UniqueIds(rs) /\ Cardinality(Roots(rs)) = 1 /\ ParentsResolve(rs)

\* p is the parent record of c.
IsParent(rs, p, c) == rs[c].parent_run_id # 0 /\ rs[c].parent_run_id = rs[p].id

\* Position in the processing order of the record at position p of the input.
OrderIndex(p) == CHOOSE k \in 1..Len(sorted_runs) : sorted_runs[k] = p

\* The input also sorts parents before children (the data model's invariant
\* on dotted_order).
ParentsSortFirst ==
    \A p, c \in Positions : IsParent(input, p, c) => OrderIndex(p) < OrderIndex(c)

\* The output record produced for the input record at position p.
OutOf(p) == transformed_runs[OrderIndex(p)]

Returned == pc = "done"

AllStartTimesPresent == \A p \in Positions : input[p].start_time # 0

\* ---- C1 ----
\* C1: for a valid input, the output record of every child has
\* parent_run_id equal to the new id of the output record of its parent.
TopologyPreserved ==
    (Returned /\ ValidInput(input)) =>
        \A p, c \in Positions :
            IsParent(input, p, c) => OutOf(c).parent_run_id = OutOf(p).id

\* A valid trace of MaxRuns records with a grandchild was transformed.
TopologyPreservedWitness ==
    /\ Returned /\ ValidInput(input) /\ Len(input) = MaxRuns
    /\ \E p, c, g \in Positions : IsParent(input, p, c) /\ IsParent(input, c, g)

\* ---- C2 ----
\* C2: for a valid single-root input exactly one output record has no
\* parent_run_id, and every output record's trace_id is that record's id.
SingleRootTraceId ==
    (Returned /\ ValidInput(input)) =>
        LET rootless == {k \in 1..Len(transformed_runs) :
                            transformed_runs[k].parent_run_id = 0}
        IN  /\ Cardinality(rootless) = 1
            /\ \A k \in 1..Len(transformed_runs), r \in rootless :
                   transformed_runs[k].trace_id = transformed_runs[r].id

\* A valid trace whose root is not the last record generated an id for.
SingleRootTraceIdWitness ==
    /\ Returned /\ ValidInput(input) /\ Len(input) = MaxRuns
    /\ \E p \in Roots(input) : OrderIndex(p) < Len(input)
    /\ new_trace_id # 0

\* ---- C8 ----
\* C8: for a valid input of N records the output has N records, their ids
\* are pairwise distinct and none is an id of the input.
FreshDistinctIds ==
    (Returned /\ ValidInput(input)) =>
        /\ Len(transformed_runs) = Len(input)
        /\ \A j, k \in 1..Len(transformed_runs) :
               j # k => transformed_runs[j].id # transformed_runs[k].id
        /\ \A k \in 1..Len(transformed_runs) : transformed_runs[k].id \notin Ids(input)

FreshDistinctIdsWitness ==
    /\ Returned /\ ValidInput(input) /\ Len(input) = MaxRuns
    /\ Cardinality({transformed_runs[k].id : k \in 1..Len(transformed_runs)}) = MaxRuns

\* ---- C7 ----
\* The current part the record at p should carry: its original start time
\* (the clock's instant when it has none), formatted, then the new id
\* without hyphens.
ExpectedPart(p) ==
    FormattedTimestamp(IF input[p].start_time # 0 THEN input[p].start_time ELSE Now)
        \o SelectSeq(UuidStr(OutOf(p).id), LAMBDA c : c # HYPHEN)

\* C7: for a valid input that sorts parents first, the root's dotted_order
\* is its current part, and every other record's dotted_order is its
\* parent's new dotted_order, ".", its own current part (never the
\* fallback).
DottedOrderConstruction ==
    (Returned /\ ValidInput(input) /\ ParentsSortFirst) =>
        \A c \in Positions :
            /\ input[c].parent_run_id = 0 => OutOf(c).dotted_order = ExpectedPart(c)
            /\ \A p \in Positions :
                   IsParent(input, p, c) =>
                       OutOf(c).dotted_order =
                           OutOf(p).dotted_order \o <<DOT>> \o ExpectedPart(c)

\* A chain root, child, grandchild was transformed.
DottedOrderConstructionWitness ==
    /\ Returned /\ ValidInput(input) /\ ParentsSortFirst
    /\ \E p, c, g \in Positions :
           /\ IsParent(input, p, c) /\ IsParent(input, c, g)
           /\ Len(OutOf(g).dotted_order) = 3 * Len(ExpectedPart(g)) + 2

\* ---- C3 ----
Siblings(p, q) == p # q /\ input[p].parent_run_id = input[q].parent_run_id

\* Sorting the output by the new dotted_order orders the records as
\* sorting the input by the original dotted_order does.
SameRelativeOrder ==
    \A a, b \in Positions :
        StrLess(input[a].dotted_order, input[b].dotted_order)
            => StrLess(OutOf(a).dotted_order, OutOf(b).dotted_order)

WellFormedTrace ==
    /\ Returned /\ ValidInput(input) /\ ParentsSortFirst
    /\ AllStartTimesPresent
    /\ \A p \in Positions : input[p].has_dotted_order

\* C3 as stated: the order is preserved for every valid input, siblings
\* with the same start_time included.
OrderPreservedAlways == WellFormedTrace => SameRelativeOrder

\* C3 amended: the order is preserved when no two siblings share a
\* start_time.
OrderPreservedDistinctStarts ==
    (WellFormedTrace
        /\ \A p, q \in Positions :
               Siblings(p, q) => input[p].start_time # input[q].start_time)
    => SameRelativeOrder

\* Two siblings with different start times whose new ids are ordered the
\* other way round than their old ids.
OrderPreservedWitness ==
    /\ WellFormedTrace
    /\ \E p, q \in Positions :
           /\ Siblings(p, q) /\ input[p].start_time # input[q].start_time
           /\ input[p].id < input[q].id /\ OutOf(p).id > OutOf(q).id
           /\ StrLess(input[p].dotted_order, input[q].dotted_order)

\* ---- C4 ----
\* C4: an input with a parent reference that matches no record ends in an
\* error and returns nothing.
FailsClosedOnUnresolvedParent ==
    (calls > 0 /\ ~ParentsResolve(input)) =>
        (pc = "error" /\ transformed_runs = <<>>)

\* ---- C6 ----
\* C6: an input without a root, or with several, ends in an error.
FailsFastOnBadRoots ==
    (calls > 0 /\ Cardinality(Roots(input)) # 1) => pc = "error"

\* ---- C10 ----
\* The dotted orders the second pass gives the same records, with the same
\* new ids, under a given preserve_timestamps.
DottedOrdersUnder(preserve) ==
    LET again == SecondPass(input, sorted_runs, 1, id_mapping, EmptyDict,
                            new_trace_id, preserve, Now)
    IN  [k \in 1..Len(again.transformed_runs) |->
            again.transformed_runs[k].dotted_order]

\* C10: with every start_time present, both settings of
\* preserve_timestamps give every record the same dotted_order, the one the
\* call returned; without preserve_timestamps the returned start_time is the
\* current instant and end_time is absent.
DottedOrderIgnoresPreserve ==
    (Returned /\ AllStartTimesPresent) =>
        /\ DottedOrdersUnder(TRUE) = DottedOrdersUnder(FALSE)
        /\ DottedOrdersUnder(TRUE) =
               [k \in 1..Len(transformed_runs) |-> transformed_runs[k].dotted_order]
        /\ \A p \in Positions :
               /\ SubSeq(OutOf(p).dotted_order,
                         Len(OutOf(p).dotted_order) - Len(ExpectedPart(p)) + 1,
                         Len(OutOf(p).dotted_order)) = ExpectedPart(p)
               /\ ~preserve_timestamps =>
                      (OutOf(p).start_time = Now /\ OutOf(p).end_time = 0)

\* A call without preserve_timestamps returned a start_time other than the
\* original one.
DottedOrderIgnoresPreserveWitness ==
    /\ Returned /\ AllStartTimesPresent /\ ~preserve_timestamps
    /\ Len(input) = MaxRuns
    /\ \A p \in Positions : OutOf(p).start_time # input[p].start_time

\* ---- C9 ----
ProvenanceKeys == {"copied_from_shared_trace", "original_run_id"}

\* The items of the input record's extra and extra.metadata (none when the
\* maps are absent or None).
InputExtraItems(p) ==
    IF input[p].extra.kind = "dict" THEN input[p].extra.items ELSE EmptyDict

InputMetadataItems(p) ==
    IF input[p].extra.kind = "dict" /\ input[p].extra.metadata.kind = "dict"
    THEN input[p].extra.metadata.items
    ELSE EmptyDict

\* The output record of p carries the two provenance fields.
ProvenanceMarked(p) ==
    /\ OutOf(p).extra.kind = "dict"
    /\ OutOf(p).extra.metadata.kind = "dict"
    /\ ProvenanceKeys \subseteq DOMAIN OutOf(p).extra.metadata.items
    /\ OutOf(p).extra.metadata.items["copied_from_shared_trace"] = True
    /\ OutOf(p).extra.metadata.items["original_run_id"] = StrVal(input[p].id)

\* The keys of the given set that the input maps had are in the output maps
\* with their values; nothing else is in the output maps but the provenance.
KeysKept(p, metadataKeys) ==
    /\ \A key \in DOMAIN InputExtraItems(p) :
           /\ key \in DOMAIN OutOf(p).extra.items
           /\ OutOf(p).extra.items[key] = InputExtraItems(p)[key]
    /\ \A key \in DOMAIN InputMetadataItems(p) :
           /\ key \in DOMAIN OutOf(p).extra.metadata.items
           /\ key \in metadataKeys =>
                  OutOf(p).extra.metadata.items[key] = InputMetadataItems(p)[key]
    /\ DOMAIN OutOf(p).extra.items = DOMAIN InputExtraItems(p)
    /\ DOMAIN OutOf(p).extra.metadata.items =
           (DOMAIN InputMetadataItems(p)) \cup ProvenanceKeys

\* C9 as stated: every output record is marked and every key of the input's
\* extra and extra.metadata is still there with its value.
ProvenanceKeepsEveryValue ==
    Returned =>
        \A p \in Positions :
            ProvenanceMarked(p) /\ KeysKept(p, DOMAIN InputMetadataItems(p))

\* C9 amended: every key is still there, and with its value unless it is
\* copied_from_shared_trace or original_run_id, which take the new values.
ProvenanceMerged ==
    Returned =>
        \A p \in Positions :
            ProvenanceMarked(p)
                /\ KeysKept(p, (DOMAIN InputMetadataItems(p)) \ ProvenanceKeys)

\* One trace with a record without extra, one with metadata of its own and
\* one that was already a copy.
ProvenanceMergedWitness ==
    /\ Returned
    /\ \E p, q, r \in Positions :
           /\ input[p].extra.kind = "absent"
           /\ "user" \in DOMAIN InputMetadataItems(q)
           /\ "runtime" \in DOMAIN InputExtraItems(r)
           /\ "original_run_id" \in DOMAIN InputMetadataItems(r)
           /\ OutOf(r).extra.metadata.items["user"] = IntVal(5)

\* ---- C5 ----
\* What earlier calls left in the object: the entries of the two maps whose
\* key is no id of the records of the last call.
StaleIds == {id_mapping[x] : x \in (DOMAIN id_mapping) \ Ids(input)}

StaleDottedOrders ==
    {dotted_order_mapping[x] : x \in (DOMAIN dotted_order_mapping) \ Ids(input)}

\* C5: nothing an earlier call produced is in the result of a call: no
\* trace_id and no parent_run_id is a new id of an earlier call, and no
\* dotted_order continues a dotted_order of an earlier call.
NoLeakAcrossCalls ==
    Returned =>
        \A k \in 1..Len(transformed_runs) :
            /\ transformed_runs[k].trace_id \notin StaleIds
            /\ transformed_runs[k].parent_run_id \notin StaleIds
            /\ \A d \in StaleDottedOrders :
                   transformed_runs[k].dotted_order #
                       d \o <<DOT>> \o ExpectedPart(sorted_runs[k])

\* ---- TraceUploader.upload_runs ----

\* for i, run in enumerate(runs, 1): the record of the i-th iteration.
UploadedRunMutant(rs, i) == rs[Len(rs) + 1 - i]

UploadedRun(rs, i) == rs[i]

\* uploader.upload_runs(transformed_runs, args.project), reached when
\* transform_runs has returned (and the run is no dry run).
UploadRuns ==
    /\ pc = "done"
    /\ pc' = "uploading"
    /\ UNCHANGED <<preserve_timestamps, id_mapping, dotted_order_mapping,
                   new_trace_id, input, runs, sorted_runs, transformed_runs,
                   issued, calls, create_run_calls>>

\* One iteration whose client.create_run returns.
CreateRun ==
    /\ pc = "uploading"
    /\ Len(create_run_calls) < Len(transformed_runs)
    /\ create_run_calls' =
           Append(create_run_calls,
                  [run |-> UploadedRun(transformed_runs, Len(create_run_calls) + 1),
                   returned |-> TRUE])
    /\ UNCHANGED <<preserve_timestamps, id_mapping, dotted_order_mapping,
                   new_trace_id, input, runs, sorted_runs, transformed_runs,
                   issued, calls, pc>>

\* One iteration whose client.create_run raises: the handler prints and
\* re-raises, upload_runs ends.
CreateRunRaises ==
    /\ pc = "uploading"
    /\ Len(create_run_calls) < Len(transformed_runs)
    /\ create_run_calls' =
           Append(create_run_calls,
                  [run |-> UploadedRun(transformed_runs, Len(create_run_calls) + 1),
                   returned |-> FALSE])
    /\ pc' = "upload_failed"
    /\ UNCHANGED <<preserve_timestamps, id_mapping, dotted_order_mapping,
                   new_trace_id, input, runs, sorted_runs, transformed_runs,
                   issued, calls>>

\* The loop is exhausted: upload_runs returns.
UploadReturns ==
    /\ pc = "uploading"
    /\ Len(create_run_calls) = Len(transformed_runs)
    /\ pc' = "uploaded"
    /\ UNCHANGED <<preserve_timestamps, id_mapping, dotted_order_mapping,
                   new_trace_id, input, runs, sorted_runs, transformed_runs,
                   issued, calls, create_run_calls>>

\* The traces of the upload analysis: unique ids, one root, every parent
\* reference resolving, in any list order, with or without dotted_order.
UploadTraces == {rs \in AnyShapeTraces : ValidInput(rs)}

FetchUploadTrace ==
    /\ calls = 0
    /\ Fetch(UploadTraces)

\* main(): fetch, transform, upload.
NextUpload ==
    \/ FetchUploadTrace
    \/ TransformRuns
    \/ UploadRuns
    \/ CreateRun
    \/ CreateRunRaises
    \/ UploadReturns

SpecUpload == Init /\ [][NextUpload]_vars

\* ---- C11 ----
\* C11: uploading the output of transform_runs for a valid input that sorts
\* parents first, create_run is invoked for a record only after create_run
\* for its parent record has returned, and no create_run follows one that
\* raised; when upload_runs returns, every record was created.
ParentsUploadedFirst ==
    (ValidInput(input) /\ ParentsSortFirst) =>
        /\ \A k \in 1..Len(create_run_calls) :
               /\ create_run_calls[k].run.parent_run_id # 0 =>
                      \E j \in 1..(k - 1) :
                          /\ create_run_calls[j].run.id =
                                 create_run_calls[k].run.parent_run_id
                          /\ create_run_calls[j].returned
               /\ \A j \in 1..(k - 1) : create_run_calls[j].returned
        /\ pc = "uploaded" =>
               \A p \in Positions :
                   \E k \in 1..Len(create_run_calls) :
                       create_run_calls[k].run = OutOf(p) /\ create_run_calls[k].returned

\* The root and a child were created, then create_run raised for the
\* grandchild.
ParentsUploadedFirstWitness ==
    /\ ValidInput(input) /\ ParentsSortFirst
    /\ pc = "upload_failed"
    /\ Len(create_run_calls) = MaxRuns
    /\ \A k \in 2..Len(create_run_calls) :
           create_run_calls[k].run.parent_run_id = create_run_calls[k - 1].run.id

\* ---- C12 ----
\* C12: after transform_runs the caller's records are as they were passed:
\* the same fields and values, extra and extra.metadata included, in the
\* same list order.
InputLeftUnchanged ==
    calls > 0 => runs = input

====
